---- MODULE Spec2Model ----
(***************************************************************************)
(* A model of bodyguard (github.com/dedalusj/bodyguard): the matching      *)
(* engine `match`, the predicate catalog, the container matchers Object,   *)
(* StrictObject, Array and UnorderedArray, and the entry point             *)
(* Assert/isMatch with its JSON decode step.                               *)
(*                                                                         *)
(* Go values are records tagged with their dynamic type:                   *)
(*   [t |-> "nil"]                      nil                                *)
(*   [t |-> "bool",   b |-> BOOLEAN]    bool                               *)
(*   [t |-> "string", s |-> STRING]     string                             *)
(*   [t |-> "int",   kind, n]           an integer of Go kind `kind`       *)
(*   [t |-> "float", kind, h]           a float; h counts halves, so       *)
(*                                      h = 3 is 1.5 (every such value and *)
(*                                      every sum/difference of two is     *)
(*                                      exact in float64)                  *)
(*   [t |-> "slice", items |-> Seq]     []interface{}                      *)
(*   [t |-> "map",   fields |-> [keys -> values]]  map[string]interface{}  *)
(* A Matcher (a MatcherFunc closure) is a record [t |-> "matcher", f |->   *)
(* the function that built the closure, ...the variables it captured].     *)
(***************************************************************************)
EXTENDS Integers, Sequences, FiniteSets, TLC

VARIABLES expected, body, results, reported, search

vars == <<expected, body, results, reported, search>>

\* ---------------------------------------------------------------- bounds

\* Longest expected element list / actual array that is enumerated.
MaxLen == 2

\* How many times Assert is called on the same expected tree and body.
MaxRuns == 2

\* ------------------------------------------------------------- Go values

Nil == [t |-> "nil"]
BoolV(b) == [t |-> "bool", b |-> b]
Str(s) == [t |-> "string", s |-> s]
IntK(kind, n) == [t |-> "int", kind |-> kind, n |-> n]
IntV(n) == IntK("int", n)
\* A float64 holding h halves.
Float64(h) == [t |-> "float", kind |-> "float64", h |-> h]
Float32(h) == [t |-> "float", kind |-> "float32", h |-> h]
Slice(items) == [t |-> "slice", items |-> items]
Map(fields) == [t |-> "map", fields |-> fields]

\* The signed kinds listed in match's switch, and the integer kinds it omits.
SignedKinds == {"int", "int8", "int16", "int32", "int64"}
UnsignedKinds == {"uint", "uint8", "uint16", "uint32", "uint64"}
IntKinds == SignedKinds \cup UnsignedKinds

\* float64(n) for an int64 n: n wholes are 2n halves.
ToFloat64(n) == 2 * n

\* math.Trunc on halves: rounds toward zero.
Trunc(h) == IF h >= 0 THEN h - (h % 2) ELSE -((-h) - ((-h) % 2))

\* math.Abs
Abs(h) == IF h >= 0 THEN h ELSE -h

\* The order fmt prints map keys in (sorted); the key universe of the model.
KeyOrder == <<"a", "b", "c">>
Keys == {KeyOrder[i] : i \in DOMAIN KeyOrder}

\* ------------------------------------------------------------ formatting

\* fmt's %T of a value.
TypeName(v) ==
    CASE v.t = "nil" -> "<nil>"
      [] v.t = "bool" -> "bool"
      [] v.t = "string" -> "string"
      [] v.t = "int" -> v.kind
      [] v.t = "float" -> v.kind
      [] v.t = "slice" -> "[]interface {}"
      [] v.t = "map" -> "map[string]interface {}"
      [] v.t = "matcher" -> "bodyguard.MatcherFunc"

\* fmt's %v of a float holding h halves: "1", "1.5", "-0.5".
FmtFloat(h) ==
    LET a == Abs(h)
        sign == IF h < 0 THEN "-" ELSE ""
    IN  sign \o ToString(a \div 2) \o (IF a % 2 = 1 THEN ".5" ELSE "")

RECURSIVE FmtV(_)
RECURSIVE FmtItems(_, _)
RECURSIVE FmtFields(_, _, _)

\* fmt's %v of the elements i.. of a slice, space separated.
FmtItems(items, i) ==
    IF i > Len(items) THEN ""
    ELSE (IF i > 1 THEN " " ELSE "") \o FmtV(items[i]) \o FmtItems(items, i + 1)

\* fmt's %v of the entries of a map, in sorted key order.
FmtFields(fields, i, first) ==
    IF i > Len(KeyOrder) THEN ""
    ELSE IF KeyOrder[i] \in DOMAIN fields
         THEN (IF first THEN "" ELSE " ") \o KeyOrder[i] \o ":"
              \o FmtV(fields[KeyOrder[i]]) \o FmtFields(fields, i + 1, FALSE)
         ELSE FmtFields(fields, i + 1, first)

\* fmt's %v of a value. A MatcherFunc prints as its code address.
FmtV(v) ==
    CASE v.t = "nil" -> "<nil>"
      [] v.t = "bool" -> (IF v.b THEN "true" ELSE "false")
      [] v.t = "string" -> v.s
      [] v.t = "int" -> ToString(v.n)
      [] v.t = "float" -> FmtFloat(v.h)
      [] v.t = "slice" -> "[" \o FmtItems(v.items, 1) \o "]"
      [] v.t = "map" -> "map[" \o FmtFields(v.fields, 1, TRUE) \o "]"
      [] v.t = "matcher" -> "0x" \o v.f

\* fmt's %q of a string (the strings of the model need no escapes).
Quote(s) == "\"" \o s \o "\""

\* ---------------------------------------------------------------- errors

(***************************************************************************)
(* An error value. `at` is <<path>> when the message starts "at <path>: "  *)
(* and <<>> when the message names no path; `kind` names the format string *)
(* and `args` holds its remaining arguments, formatted.                    *)
(***************************************************************************)
NoErr == [kind |-> "nil", at |-> <<>>, args |-> <<>>]
ErrAt(path, kind, args) == [kind |-> kind, at |-> <<path>>, args |-> args]
ErrBare(kind, args) == [kind |-> kind, at |-> <<>>, args |-> args]

\* fmt.Errorf("at %s: %w", path, err): the wrapped error gains the path.
WrapAt(path, err) == [kind |-> err.kind, at |-> <<path>>, args |-> err.args]

\* ------------------------------------------------- library behaviour
(***************************************************************************)
(* The standard library calls the predicates make (regexp, time), given as *)
(* tables over the strings of the model.                                   *)
(***************************************************************************)

UuidText == "550e8400-e29b-41d4-a716-446655440000"

\* The strings that occur as JSON strings or as literals.
Strings ==
    {"A", "B", "FOO", "BAR", "hi", "hello", UuidText, "not-a-uuid",
     "test@example.com", "invalid-email", "abc-123", "abcd-123",
     "https://example.com", "not-a-url", "apple", "pear",
     "2023-10-27T10:00:00Z", "2023-10-27T11:00:00Z", "2023-10-27",
     "2023/10/27"}

\* The patterns given to Regexp: two that compile, two that do not.
ValidPatterns == {"^[a-z]{3}-[0-9]{3}$", "A|B"}
InvalidPatterns == {"[a-z", "("}
Patterns == ValidPatterns \cup InvalidPatterns

\* regexp.Compile(pattern) returns a non-nil error.
CompileFails(pattern) == pattern \in InvalidPatterns

\* The error regexp.Compile returns for an invalid pattern, a *syntax.Error:
\* <<Code, Expr>>.  Its text, which %w prints, is "error parsing regexp: "
\* followed by Code, ": " and Expr between backquotes.
CompileError(pattern) ==
    CASE pattern = "[a-z" -> <<"missing closing ]", pattern>>
      [] pattern = "(" -> <<"missing closing )", pattern>>

\* re.MatchString(s) for a compiled pattern.
RegexpMatchString(pattern, s) ==
    CASE pattern = "^[a-z]{3}-[0-9]{3}$" -> s = "abc-123"
      [] pattern = "A|B" -> s \in {"A", "B", "BAR"}
      [] OTHER -> FALSE

\* uuidRegex.MatchString(s)
UuidMatchString(s) == s = UuidText

\* emailRegex.MatchString(s)
EmailMatchString(s) == s = "test@example.com"

\* The URL pattern's MatchString(s)
UrlMatchString(s) == s = "https://example.com"

\* time.Parse(time.RFC3339, s): seconds since 2023-10-27T00:00:00Z.
Rfc3339Ok(s) == s \in {"2023-10-27T10:00:00Z", "2023-10-27T11:00:00Z"}
Rfc3339Seconds(s) == IF s = "2023-10-27T10:00:00Z" THEN 36000 ELSE 39600

\* time.Parse("2006-01-02", s)
DateOk(s) == s = "2023-10-27"

\* The caller's format checks given to StringWithFormat: the one of the tests.
FormatCheck(fn, s) ==
    IF fn = "isFOO" /\ s # "FOO" THEN ErrBare("custom", <<"expected FOO">>)
    ELSE NoErr

\* ------------------------------------------------ predicate constructors

Matcher(f) == [t |-> "matcher", f |-> f]

Null == Matcher("Null")
Bool == Matcher("Bool")

stringValue(validators) ==
    [t |-> "matcher", f |-> "stringValue", validators |-> validators]

String == stringValue(<<>>)
UUID == stringValue(<<[v |-> "UUID"]>>)
Email == stringValue(<<[v |-> "Email"]>>)

\* A constructor that panicked: no expected tree exists and the test stops
\* before it calls Assert.
Panic == [t |-> "panic"]

\* Regexp built on regexp.MustCompile: an invalid pattern panics at once.
RegexpMustCompile(pattern) ==
    IF CompileFails(pattern) THEN Panic
    ELSE stringValue(<<[v |-> "Regexp", pattern |-> pattern, err |-> FALSE]>>)

\* Regexp compiles at construction and keeps re and err in the closure.
Regexp(pattern) ==
    stringValue(<<[v |-> "Regexp", pattern |-> pattern,
                   err |-> CompileFails(pattern)]>>)

StringLength(min, max) ==
    stringValue(<<[v |-> "StringLength", min |-> min, max |-> max]>>)
URL == stringValue(<<[v |-> "URL"]>>)
OneOf(options) == stringValue(<<[v |-> "OneOf", options |-> options]>>)
StringWithFormat(formatCheck) ==
    stringValue(<<[v |-> "StringWithFormat", fn |-> formatCheck]>>)

timeValue(parser, validators) ==
    [t |-> "matcher", f |-> "timeValue", parser |-> parser,
     validators |-> validators]

Timestamp == timeValue("rfc3339Parser", <<>>)
Date == timeValue("dateParser", <<>>)
TimeWithinDuration(exp, delta) ==
    timeValue("rfc3339Parser",
              <<[v |-> "TimeWithinDuration", expected |-> exp, delta |-> delta]>>)
TimeWithinRange(startTime, endTime) ==
    timeValue("rfc3339Parser",
              <<[v |-> "TimeWithinRange", startTime |-> startTime,
                 endTime |-> endTime]>>)
TimeBefore(before) ==
    timeValue("rfc3339Parser", <<[v |-> "TimeBefore", before |-> before]>>)
TimeAfter(after) ==
    timeValue("rfc3339Parser", <<[v |-> "TimeAfter", after |-> after]>>)

Number == Matcher("Number")
NumberWithinDelta(exp, delta) ==
    [t |-> "matcher", f |-> "NumberWithinDelta", expected |-> exp,
     delta |-> delta]
NumberWithinRange(min, max) ==
    [t |-> "matcher", f |-> "NumberWithinRange", min |-> min, max |-> max]
NumberGreater(min) == [t |-> "matcher", f |-> "NumberGreater", min |-> min]
NumberSmaller(max) == [t |-> "matcher", f |-> "NumberSmaller", max |-> max]
Integer == Matcher("Integer")
Positive == NumberGreater(0)
Negative == NumberSmaller(0)

Object(exp) == [t |-> "matcher", f |-> "Object", expected |-> exp]
StrictObject(exp) == [t |-> "matcher", f |-> "StrictObject", expected |-> exp]
Array(elements) == [t |-> "matcher", f |-> "Array", elements |-> elements]
UnorderedArray(elements) ==
    [t |-> "matcher", f |-> "UnorderedArray", elements |-> elements]

\* expected.(Matcher) succeeds
IsMatcher(e) == e.t = "matcher"

\* ------------------------------------------------------ predicate bodies

\* The closure of Null.
NullMatch(path, value) ==
    IF value # Nil THEN ErrAt(path, "expected null", <<FmtV(value)>>)
    ELSE NoErr

\* The closure of Bool.
BoolMatch(path, value) ==
    IF value.t # "bool" THEN ErrAt(path, "expected boolean", <<TypeName(value)>>)
    ELSE NoErr

\* One validator closure passed to stringValue, applied to s.
StringValidator(v, s) ==
    CASE v.v = "UUID" ->
           IF ~UuidMatchString(s) THEN ErrBare("expected UUID", <<Quote(s)>>)
           ELSE NoErr
      [] v.v = "Email" ->
           IF ~EmailMatchString(s) THEN ErrBare("expected email", <<Quote(s)>>)
           ELSE NoErr
      [] v.v = "Regexp" ->
           IF v.err
           THEN ErrBare("invalid regexp pattern",
                        <<Quote(v.pattern)>> \o CompileError(v.pattern))
           ELSE IF ~RegexpMatchString(v.pattern, s)
                THEN ErrBare("expected to match", <<Quote(v.pattern), Quote(s)>>)
                ELSE NoErr
      [] v.v = "StringLength" ->
           IF Len(s) < v.min \/ Len(s) > v.max
           THEN ErrBare("expected string length",
                        <<ToString(v.min), ToString(v.max), ToString(Len(s))>>)
           ELSE NoErr
      [] v.v = "URL" ->
           IF ~UrlMatchString(s) THEN ErrBare("expected valid URL", <<Quote(s)>>)
           ELSE NoErr
      [] v.v = "OneOf" ->
           IF \E i \in DOMAIN v.options : s = v.options[i] THEN NoErr
           ELSE ErrBare("expected one of",
                        <<FmtV(Slice([i \in DOMAIN v.options |->
                                        Str(v.options[i])])), Quote(s)>>)
      [] v.v = "StringWithFormat" -> FormatCheck(v.fn, s)

RECURSIVE StringValidators(_, _, _, _)
\* stringValue's loop over its validators, from the i-th on.
StringValidators(validators, i, path, s) ==
    IF i > Len(validators) THEN NoErr
    ELSE LET err == StringValidator(validators[i], s)
         IN  IF err # NoErr THEN WrapAt(path, err)
             ELSE StringValidators(validators, i + 1, path, s)

\* The closure stringValue returns.
StringValueMatch(validators, path, value) ==
    IF value.t # "string"
    THEN ErrAt(path, "expected string", <<TypeName(value)>>)
    ELSE StringValidators(validators, 1, path, value.s)

\* rfc3339Parser and dateParser: [err, time].
rfc3339Parser(s) ==
    IF Rfc3339Ok(s) THEN [err |-> NoErr, time |-> Rfc3339Seconds(s)]
    ELSE [err |-> ErrBare("parsing time", <<Quote(s)>>), time |-> 0]

dateParser(s) ==
    IF DateOk(s) THEN [err |-> NoErr, time |-> 0]
    ELSE [err |-> ErrBare("expected YYYY-MM-DD", <<Quote(s)>>), time |-> 0]

\* One validator closure passed to timeValue, applied to the parsed time.
TimeValidator(v, parsed) ==
    CASE v.v = "TimeWithinDuration" ->
           IF Abs(parsed - v.expected) > v.delta
           THEN ErrBare("expected time within", <<ToString(v.delta), ToString(v.expected), ToString(parsed)>>)
           ELSE NoErr
      [] v.v = "TimeWithinRange" ->
           IF parsed < v.startTime \/ parsed > v.endTime
           THEN ErrBare("expected time between", <<ToString(v.startTime), ToString(v.endTime), ToString(parsed)>>)
           ELSE NoErr
      [] v.v = "TimeBefore" ->
           IF ~(parsed < v.before)
           THEN ErrBare("expected time before", <<ToString(v.before), ToString(parsed)>>)
           ELSE NoErr
      [] v.v = "TimeAfter" ->
           IF ~(parsed > v.after)
           THEN ErrBare("expected time after", <<ToString(v.after), ToString(parsed)>>)
           ELSE NoErr

RECURSIVE TimeValidators(_, _, _, _)
\* timeValue's loop over its validators, from the i-th on.
TimeValidators(validators, i, path, parsed) ==
    IF i > Len(validators) THEN NoErr
    ELSE LET err == TimeValidator(validators[i], parsed)
         IN  IF err # NoErr THEN WrapAt(path, err)
             ELSE TimeValidators(validators, i + 1, path, parsed)

\* The closure timeValue returns.
TimeValueMatch(parser, validators, path, value) ==
    IF value.t # "string"
    THEN ErrAt(path, "expected time string", <<TypeName(value)>>)
    ELSE LET r == IF parser = "dateParser" THEN dateParser(value.s)
                  ELSE rfc3339Parser(value.s)
         IN  IF r.err # NoErr THEN WrapAt(path, r.err)
             ELSE TimeValidators(validators, 1, path, r.time)

\* value.(float64) succeeds
IsFloat64(value) == value.t = "float" /\ value.kind = "float64"

\* The closure of Number.
NumberMatch(path, value) ==
    IF ~IsFloat64(value) THEN ErrAt(path, "expected number", <<TypeName(value)>>)
    ELSE NoErr

\* The closure of NumberWithinDelta.
NumberWithinDeltaMatch(exp, delta, path, value) ==
    IF ~IsFloat64(value) THEN ErrAt(path, "expected number", <<TypeName(value)>>)
    ELSE IF Abs(value.h - exp) > delta
         THEN ErrBare("expected number within",
                      <<FmtFloat(delta), FmtFloat(exp), FmtFloat(value.h)>>)
         ELSE NoErr

\* The closure of NumberWithinRange.
NumberWithinRangeMatch(min, max, path, value) ==
    IF ~IsFloat64(value) THEN ErrAt(path, "expected number", <<TypeName(value)>>)
    ELSE IF value.h < min \/ value.h > max
         THEN ErrBare("expected number within range",
                      <<FmtFloat(min), FmtFloat(max), FmtFloat(value.h)>>)
         ELSE NoErr

\* NumberGreater comparing with `<`: a value equal to the bound passes.
NumberGreaterOrEqualMatch(min, path, value) ==
    IF ~IsFloat64(value) THEN ErrAt(path, "expected number", <<TypeName(value)>>)
    ELSE IF value.h < min
         THEN ErrBare("expected number greater than",
                      <<FmtFloat(min), FmtFloat(value.h)>>)
         ELSE NoErr

\* The closure of NumberGreater.
NumberGreaterMatch(min, path, value) ==
    IF ~IsFloat64(value) THEN ErrAt(path, "expected number", <<TypeName(value)>>)
    ELSE IF value.h <= min
         THEN ErrBare("expected number greater than",
                      <<FmtFloat(min), FmtFloat(value.h)>>)
         ELSE NoErr

\* The closure of NumberSmaller.
NumberSmallerMatch(max, path, value) ==
    IF ~IsFloat64(value) THEN ErrAt(path, "expected number", <<TypeName(value)>>)
    ELSE IF value.h >= max
         THEN ErrBare("expected number smaller than",
                      <<FmtFloat(max), FmtFloat(value.h)>>)
         ELSE NoErr

\* The closure of Integer.
IntegerMatch(path, value) ==
    IF ~IsFloat64(value) THEN ErrAt(path, "expected number", <<TypeName(value)>>)
    ELSE IF value.h # Trunc(value.h)
         THEN ErrBare("expected integer", <<FmtFloat(value.h)>>)
         ELSE NoErr

\* Whether a matcher is one of the catalog's predicates (not a container).
IsPredicate(e) ==
    IsMatcher(e) /\ e.f \notin {"Object", "StrictObject", "Array", "UnorderedArray"}

\* m.Match(path, value) for a predicate m: the closure the constructor returned.
PredicateMatch(m, path, value) ==
    CASE m.f = "Null" -> NullMatch(path, value)
      [] m.f = "Bool" -> BoolMatch(path, value)
      [] m.f = "stringValue" -> StringValueMatch(m.validators, path, value)
      [] m.f = "timeValue" -> TimeValueMatch(m.parser, m.validators, path, value)
      [] m.f = "Number" -> NumberMatch(path, value)
      [] m.f = "NumberWithinDelta" ->
           NumberWithinDeltaMatch(m.expected, m.delta, path, value)
      [] m.f = "NumberWithinRange" ->
           NumberWithinRangeMatch(m.min, m.max, path, value)
      [] m.f = "NumberGreater" -> NumberGreaterMatch(m.min, path, value)
      [] m.f = "NumberSmaller" -> NumberSmallerMatch(m.max, path, value)
      [] m.f = "Integer" -> IntegerMatch(path, value)

\* ---------------------------------------------------------------- engine
(***************************************************************************)
(* Go leaves the iteration order of a map unspecified, so a match over an  *)
(* object has a set of possible outcomes, one per order of the keys.  An   *)
(* outcome is [err, trace]: the error returned (NoErr for nil) and the     *)
(* paths of the calls of `match` made, in order.                           *)
(***************************************************************************)
Outcome(err, trace) == [err |-> err, trace |-> trace]
Return(err) == {Outcome(err, <<>>)}

\* reflect.DeepEqual(expected, actual): same dynamic type and equal values.
\* A value of the model carries its dynamic type, and no decoded value holds
\* a func, so this is equality of the records.
DeepEqual(exp, actual) == exp = actual

\* match's switch on val.Kind(): the conversion of a signed integer literal.
Coerces(exp, actual) ==
    /\ exp.t = "int"
    /\ exp.kind \in SignedKinds
    /\ IsFloat64(actual)
    /\ ToFloat64(exp.n) = actual.h

\* match taking the placeholder path for a dry run in which a literal is
\* not compared.
literalMatchSkipProbe(exp, path, actual) ==
    IF path = "probe" THEN NoErr
    ELSE IF DeepEqual(exp, actual) THEN NoErr
    ELSE IF Coerces(exp, actual) THEN NoErr
    ELSE ErrAt(path, "expected, got",
               <<FmtV(exp), TypeName(exp), FmtV(actual), TypeName(actual)>>)

\* match for an expected value that is no Matcher.
literalMatch(exp, path, actual) ==
    IF DeepEqual(exp, actual) THEN NoErr
    ELSE IF Coerces(exp, actual) THEN NoErr
    ELSE ErrAt(path, "expected, got",
               <<FmtV(exp), TypeName(exp), FmtV(actual), TypeName(actual)>>)

RECURSIVE match(_, _, _)
RECURSIVE ObjectLoop(_, _, _, _)
RECURSIVE StrictObjectLoop(_, _, _, _)
RECURSIVE ArrayLoop(_, _, _, _)
RECURSIVE UnorderedScan(_, _, _, _)
RECURSIVE UnorderedLoop(_, _, _, _, _)

\* Object returning nil inside the loop, after the first key that matches.
ObjectLoopReturnEarly(exp, path, actualMap, remaining) ==
    IF remaining = {} THEN Return(NoErr)
    ELSE UNION {
        IF key \notin DOMAIN actualMap
        THEN Return(ErrAt(path, "missing key", <<Quote(key)>>))
        ELSE match(exp[key], path \o "." \o key, actualMap[key])
        : key \in remaining}

\* Object's `for key, expectedVal := range expected`, with the keys of
\* `remaining` still to come, in any order.
ObjectLoop(exp, path, actualMap, remaining) ==
    IF remaining = {} THEN Return(NoErr)
    ELSE UNION {
        IF key \notin DOMAIN actualMap
        THEN Return(ErrAt(path, "missing key", <<Quote(key)>>))
        ELSE UNION {
            IF o.err # NoErr THEN {o}
            ELSE {Outcome(r.err, o.trace \o r.trace) :
                    r \in ObjectLoop(exp, path, actualMap, remaining \ {key})}
            : o \in match(exp[key], path \o "." \o key, actualMap[key])}
        : key \in remaining}

\* Object ranging over the keys both maps hold: the missing-key check is lost.
ObjectMatchPresentKeys(exp, path, value) ==
    IF value.t # "map"
    THEN Return(ErrAt(path, "expected object", <<TypeName(value)>>))
    ELSE ObjectLoop(exp, path, value.fields, DOMAIN exp \cap DOMAIN value.fields)

\* The closure of Object.
ObjectMatch(exp, path, value) ==
    IF value.t # "map"
    THEN Return(ErrAt(path, "expected object", <<TypeName(value)>>))
    ELSE ObjectLoop(exp, path, value.fields, DOMAIN exp)

\* StrictObject looking each actual key up in actualMap instead of expected:
\* no key is ever unexpected.
StrictObjectUnexpectedWrongMap(exp, path, actualMap) ==
    {ErrAt(path, "unexpected key", <<Quote(key)>>) :
        key \in {k \in DOMAIN actualMap : k \notin DOMAIN actualMap}}

\* StrictObject's `for key := range actualMap`: the errors it can return,
\* one per key that can come first among those expected lacks.
StrictObjectUnexpected(exp, path, actualMap) ==
    {ErrAt(path, "unexpected key", <<Quote(key)>>) :
        key \in {k \in DOMAIN actualMap : k \notin DOMAIN exp}}

\* StrictObject's `for key, expectedVal := range expected`.
StrictObjectLoop(exp, path, actualMap, remaining) ==
    IF remaining = {} THEN Return(NoErr)
    ELSE UNION {
        IF key \notin DOMAIN actualMap
        THEN Return(ErrAt(path, "missing key", <<Quote(key)>>))
        ELSE UNION {
            IF o.err # NoErr THEN {o}
            ELSE {Outcome(r.err, o.trace \o r.trace) :
                    r \in StrictObjectLoop(exp, path, actualMap, remaining \ {key})}
            : o \in match(exp[key], path \o "." \o key, actualMap[key])}
        : key \in remaining}

\* StrictObject looking for unexpected keys after the expected keys have
\* been checked.
StrictObjectMatchUnexpectedLast(exp, path, value) ==
    IF value.t # "map"
    THEN Return(ErrAt(path, "expected object", <<TypeName(value)>>))
    ELSE LET unexpected == StrictObjectUnexpected(exp, path, value.fields)
         IN  UNION {
                IF o.err # NoErr \/ unexpected = {} THEN {o}
                ELSE {Outcome(e, o.trace) : e \in unexpected}
                : o \in StrictObjectLoop(exp, path, value.fields, DOMAIN exp)}

\* The closure of StrictObject.
StrictObjectMatch(exp, path, value) ==
    IF value.t # "map"
    THEN Return(ErrAt(path, "expected object", <<TypeName(value)>>))
    ELSE LET unexpected == StrictObjectUnexpected(exp, path, value.fields)
         IN  IF unexpected # {} THEN {Outcome(e, <<>>) : e \in unexpected}
             ELSE StrictObjectLoop(exp, path, value.fields, DOMAIN exp)

\* Array naming its children by position counted from one.
ArrayLoopOneBased(elements, path, arr, i) ==
    IF i > Len(elements) THEN Return(NoErr)
    ELSE UNION {
        IF o.err # NoErr THEN {o}
        ELSE {Outcome(r.err, o.trace \o r.trace) :
                r \in ArrayLoop(elements, path, arr, i + 1)}
        : o \in match(elements[i], path \o "[" \o ToString(i) \o "]", arr[i])}

\* Array going on after an element has failed and returning the last error.
ArrayLoopLastError(elements, path, arr, i) ==
    IF i > Len(elements) THEN Return(NoErr)
    ELSE UNION {
        {Outcome(IF r.err # NoErr THEN r.err ELSE o.err, o.trace \o r.trace) :
            r \in ArrayLoop(elements, path, arr, i + 1)}
        : o \in match(elements[i], path \o "[" \o ToString(i - 1) \o "]", arr[i])}

\* Array's `for i, expected := range elements`, from the element at Go
\* index i - 1 on.
ArrayLoop(elements, path, arr, i) ==
    IF i > Len(elements) THEN Return(NoErr)
    ELSE UNION {
        IF o.err # NoErr THEN {o}
        ELSE {Outcome(r.err, o.trace \o r.trace) :
                r \in ArrayLoop(elements, path, arr, i + 1)}
        : o \in match(elements[i], path \o "[" \o ToString(i - 1) \o "]", arr[i])}

\* Array rejecting only an actual array that is too short.
ArrayMatchTooShortOnly(elements, path, value) ==
    IF value.t # "slice"
    THEN Return(ErrAt(path, "expected array", <<TypeName(value)>>))
    ELSE IF Len(value.items) < Len(elements)
    THEN Return(ErrAt(path, "expected array length",
                      <<ToString(Len(elements)), ToString(Len(value.items))>>))
    ELSE ArrayLoop(elements, path, value.items, 1)

\* The closure of Array.
ArrayMatch(elements, path, value) ==
    IF value.t # "slice"
    THEN Return(ErrAt(path, "expected array", <<TypeName(value)>>))
    ELSE IF Len(value.items) # Len(elements)
    THEN Return(ErrAt(path, "expected array length",
                      <<ToString(Len(elements)), ToString(Len(value.items))>>))
    ELSE ArrayLoop(elements, path, value.items, 1)

\* UnorderedArray's inner loop without `if used[j] { continue }`: an actual
\* element can be taken twice.
UnorderedScanIgnoreUsed(exp, arr, j, used) ==
    IF j > Len(arr) THEN {[found |-> FALSE, used |-> used, trace |-> <<>>]}
    ELSE UNION {
        IF o.err = NoErr
        THEN {[found |-> TRUE, used |-> [used EXCEPT ![j] = TRUE],
               trace |-> o.trace]}
        ELSE {[found |-> r.found, used |-> r.used, trace |-> o.trace \o r.trace] :
                r \in UnorderedScan(exp, arr, j + 1, used)}
        : o \in match(exp, "probe", arr[j])}

\* UnorderedArray's inner `for j, actual := range arr`, from Go index j - 1
\* on: whether a match was found, the checklist after it, the calls made.
UnorderedScan(exp, arr, j, used) ==
    IF j > Len(arr) THEN {[found |-> FALSE, used |-> used, trace |-> <<>>]}
    ELSE IF used[j] THEN UnorderedScan(exp, arr, j + 1, used)
    ELSE UNION {
        IF o.err = NoErr
        THEN {[found |-> TRUE, used |-> [used EXCEPT ![j] = TRUE],
               trace |-> o.trace]}
        ELSE {[found |-> r.found, used |-> r.used, trace |-> o.trace \o r.trace] :
                r \in UnorderedScan(exp, arr, j + 1, used)}
        : o \in match(exp, "probe", arr[j])}

\* UnorderedArray's outer `for i, expected := range elements`, from Go index
\* i - 1 on.
UnorderedLoop(elements, path, arr, i, used) ==
    IF i > Len(elements) THEN Return(NoErr)
    ELSE UNION {
        IF ~s.found
        THEN {Outcome(ErrAt(path, "expected element not found",
                            <<FmtV(elements[i]), ToString(i - 1)>>), s.trace)}
        ELSE {Outcome(r.err, s.trace \o r.trace) :
                r \in UnorderedLoop(elements, path, arr, i + 1, s.used)}
        : s \in UnorderedScan(elements[i], arr, 1, used)}

\* The closure of UnorderedArray.
UnorderedArrayMatch(elements, path, value) ==
    IF value.t # "slice"
    THEN Return(ErrAt(path, "expected array", <<TypeName(value)>>))
    ELSE IF Len(value.items) # Len(elements)
    THEN Return(ErrAt(path, "expected array length",
                      <<ToString(Len(elements)), ToString(Len(value.items))>>))
    ELSE UnorderedLoop(elements, path, value.items, 1,
                       [j \in 1..Len(value.items) |-> FALSE])

\* m.Match(path, value): MatcherFunc.Match calls the closure.
MatcherFuncMatch(m, path, value) ==
    CASE m.f = "Object" -> ObjectMatch(m.expected, path, value)
      [] m.f = "StrictObject" -> StrictObjectMatch(m.expected, path, value)
      [] m.f = "Array" -> ArrayMatch(m.elements, path, value)
      [] m.f = "UnorderedArray" -> UnorderedArrayMatch(m.elements, path, value)
      [] OTHER -> Return(PredicateMatch(m, path, value))

\* match(expected, path, actual); the trace starts with this call.
match(exp, path, actual) ==
    {Outcome(o.err, <<path>> \o o.trace) :
        o \in IF IsMatcher(exp) THEN MatcherFuncMatch(exp, path, actual)
              ELSE Return(literalMatch(exp, path, actual))}

\* ------------------------------------------------------------ JSON text
(***************************************************************************)
(* A body's text is its sequence of JSON tokens: [k |-> "{"], "}", "[",    *)
(* "]", ",", ":", "true", "false", "null", [k |-> "string", s |-> ...],    *)
(* [k |-> "number", lex |-> the literal as written], and [k |-> "invalid"] *)
(* for characters that start no JSON token.                                *)
(***************************************************************************)
Tok(k) == [k |-> k]
StrTok(s) == [k |-> "string", s |-> s]
NumTok(lex) == [k |-> "number", lex |-> lex]

\* The halves whose literals strconv.ParseFloat is asked to read.
LexRange == -4 .. 8

\* Number literals that are valid JSON but exceed float64.
HugeLiterals == {"1e999"}

\* strconv.ParseFloat(lex, 64): [ok, h].
ParseFloat(lex) ==
    LET hs == {h \in LexRange : FmtFloat(h) = lex}
    IN  IF hs # {} THEN [ok |-> TRUE, h |-> CHOOSE h \in hs : TRUE]
        ELSE [ok |-> FALSE, h |-> 0]

RECURSIVE ParseValue(_, _)
RECURSIVE ParseElements(_, _, _, _)
RECURSIVE ParseMembers(_, _, _, _)

Parsed(v, next, saved) == [ok |-> TRUE, v |-> v, next |-> next, saved |-> saved]
SyntaxError == [ok |-> FALSE, v |-> Nil, next |-> 0, saved |-> FALSE]

\* The rest of an array after "[" or ",": items so far, a saved error so far.
ParseElements(toks, i, items, saved) ==
    LET e == ParseValue(toks, i)
    IN  IF ~e.ok \/ e.next > Len(toks) THEN SyntaxError
        ELSE IF toks[e.next].k = "]"
             THEN Parsed(Slice(Append(items, e.v)), e.next + 1, saved \/ e.saved)
        ELSE IF toks[e.next].k = ","
             THEN ParseElements(toks, e.next + 1, Append(items, e.v),
                                saved \/ e.saved)
        ELSE SyntaxError

\* The rest of an object after "{" or ",": a later duplicate key overwrites.
ParseMembers(toks, i, fields, saved) ==
    IF i + 1 > Len(toks) \/ toks[i].k # "string" \/ toks[i + 1].k # ":"
    THEN SyntaxError
    ELSE LET key == toks[i].s
             e == ParseValue(toks, i + 2)
             put == [k \in DOMAIN fields \cup {key} |->
                        IF k = key THEN e.v ELSE fields[k]]
         IN  IF ~e.ok \/ e.next > Len(toks) THEN SyntaxError
             ELSE IF toks[e.next].k = "}"
                  THEN Parsed(Map(put), e.next + 1, saved \/ e.saved)
             ELSE IF toks[e.next].k = ","
                  THEN ParseMembers(toks, e.next + 1, put, saved \/ e.saved)
             ELSE SyntaxError

\* One JSON value starting at token i, decoded into interface{}: null is nil,
\* a number a float64, an array []interface{}, an object
\* map[string]interface{}.  A number float64 cannot hold decodes to nil and
\* saves an error while decoding goes on.
ParseValue(toks, i) ==
    IF i > Len(toks) THEN SyntaxError
    ELSE LET tok == toks[i]
         IN  CASE tok.k = "null" -> Parsed(Nil, i + 1, FALSE)
               [] tok.k = "true" -> Parsed(BoolV(TRUE), i + 1, FALSE)
               [] tok.k = "false" -> Parsed(BoolV(FALSE), i + 1, FALSE)
               [] tok.k = "string" -> Parsed(Str(tok.s), i + 1, FALSE)
               [] tok.k = "number" ->
                    LET f == ParseFloat(tok.lex)
                    IN  IF f.ok THEN Parsed(Float64(f.h), i + 1, FALSE)
                        ELSE IF tok.lex \in HugeLiterals
                             THEN Parsed(Nil, i + 1, TRUE)
                             ELSE SyntaxError
               [] tok.k = "[" ->
                    IF i + 1 <= Len(toks) /\ toks[i + 1].k = "]"
                    THEN Parsed(Slice(<<>>), i + 2, FALSE)
                    ELSE ParseElements(toks, i + 1, <<>>, FALSE)
               [] tok.k = "{" ->
                    IF i + 1 <= Len(toks) /\ toks[i + 1].k = "}"
                    THEN Parsed(Map(<<>>), i + 2, FALSE)
                    ELSE ParseMembers(toks, i + 1, <<>>, FALSE)
               [] OTHER -> SyntaxError

\* Whether the text is one JSON value and nothing else (json's checkValid).
ValidJSON(toks) ==
    LET p == ParseValue(toks, 1) IN p.ok /\ p.next = Len(toks) + 1

\* json.Unmarshal(bodyBytes, &actual): [err, actual].
Unmarshal(toks) ==
    LET p == ParseValue(toks, 1)
    IN  IF ~(p.ok /\ p.next = Len(toks) + 1)
        THEN [err |-> ErrBare("json: syntax error", <<>>), actual |-> Nil]
        ELSE IF p.saved
        THEN [err |-> ErrBare("json: cannot unmarshal number", <<>>),
              actual |-> p.v]
        ELSE [err |-> NoErr, actual |-> p.v]

RECURSIVE Encode(_)
RECURSIVE EncodeItems(_, _)
RECURSIVE EncodeFields(_, _, _)

EncodeItems(items, i) ==
    IF i > Len(items) THEN <<>>
    ELSE (IF i > 1 THEN <<Tok(",")>> ELSE <<>>) \o Encode(items[i])
         \o EncodeItems(items, i + 1)

EncodeFields(fields, i, first) ==
    IF i > Len(KeyOrder) THEN <<>>
    ELSE IF KeyOrder[i] \in DOMAIN fields
         THEN (IF first THEN <<>> ELSE <<Tok(",")>>)
              \o <<StrTok(KeyOrder[i]), Tok(":")>> \o Encode(fields[KeyOrder[i]])
              \o EncodeFields(fields, i + 1, FALSE)
         ELSE EncodeFields(fields, i + 1, first)

\* The JSON text of a decoded value, keys in sorted order: how the bodies of
\* the model are written down.
Encode(v) ==
    CASE v.t = "nil" -> <<Tok("null")>>
      [] v.t = "bool" -> <<Tok(IF v.b THEN "true" ELSE "false")>>
      [] v.t = "string" -> <<StrTok(v.s)>>
      [] v.t = "float" -> <<NumTok(FmtFloat(v.h))>>
      [] v.t = "slice" -> <<Tok("[")>> \o EncodeItems(v.items, 1) \o <<Tok("]")>>
      [] v.t = "map" -> <<Tok("{")>> \o EncodeFields(v.fields, 1, TRUE) \o <<Tok("}")>>

\* A body: the Go type of the `body` argument and, for a string or []byte,
\* its text.
Body(type, text) == [type |-> type, text |-> text]
StringBody(v) == Body("string", Encode(v))

\* --------------------------------------------------------- entry point

\* isMatch dropping the error of json.Unmarshal and matching what was decoded.
isMatchIgnoreDecodeError(b, exp) ==
    IF b.type \notin {"string", "[]byte"}
    THEN Return(ErrBare("body must be string or []byte", <<b.type>>))
    ELSE match(exp, "$", Unmarshal(b.text).actual)

\* isMatch(body, expected)
isMatch(b, exp) ==
    IF b.type \notin {"string", "[]byte"}
    THEN Return(ErrBare("body must be string or []byte", <<b.type>>))
    ELSE LET u == Unmarshal(b.text)
         IN  IF u.err # NoErr
             THEN Return(ErrBare("invalid json", <<u.err.kind>>))
             ELSE match(exp, "$", u.actual)

RECURSIVE Panicked(_)
\* Whether building the expected tree panicked somewhere.
Panicked(e) ==
    \/ e = Panic
    \/ /\ e.t = "matcher"
       /\ \/ e.f \in {"Object", "StrictObject"}
             /\ \E k \in DOMAIN e.expected : Panicked(e.expected[k])
          \/ e.f \in {"Array", "UnorderedArray"}
             /\ \E i \in DOMAIN e.elements : Panicked(e.elements[i])

\* --------------------------------------------------------------- inputs

Seqs(S, n) == UNION {[1..k -> S] : k \in 0..n}
Maps(K, S) == UNION {[D -> S] : D \in SUBSET K}

\* Decoded numbers: -1, -0.5, 0, 0.5, 1, 1.5, 2.
Halves == -2 .. 4

\* Objects: expected mappings over "a", "b" against actual objects over
\* "a", "b", "c" and a few values that are no object.
ObjectExpectedLeaves ==
    {IntV(1), Str("A"), String, Object([a |-> IntV(1)])}
ObjectActualLeaves ==
    {Float64(2), Float64(4), Str("A"), Map([a |-> Float64(2)])}
ObjectExpected ==
    {Object(E) : E \in Maps({"a", "b"}, ObjectExpectedLeaves)}
    \cup {StrictObject(E) : E \in Maps({"a", "b"}, ObjectExpectedLeaves)}
ObjectActual ==
    {Map(A) : A \in Maps(Keys, ObjectActualLeaves)}
    \cup {Nil, Str("A"), Slice(<<Float64(2)>>)}

\* Arrays: expected element lists and actual arrays up to MaxLen long.
ArrayExpectedLeaves ==
    {IntV(1), Str("A"), Str("B"), String, Array(<<Str("A")>>)}
ArrayActualLeaves == {Float64(2), Str("A"), Str("B"), Slice(<<Str("A")>>)}
ArrayExpected ==
    {Array(es) : es \in Seqs(ArrayExpectedLeaves, MaxLen)}
    \cup {UnorderedArray(es) : es \in Seqs(ArrayExpectedLeaves, MaxLen)}
ArrayActual ==
    {Slice(as) : as \in Seqs(ArrayActualLeaves, MaxLen)}
    \cup {Nil, Map([a |-> Float64(2)])}
\* An UnorderedArray one level down, as the value of an object's key.
NestedUnorderedPairs ==
    {<<Object([a |-> UnorderedArray(es)]), Map([a |-> Slice(as)])>> :
        es \in Seqs(ArrayExpectedLeaves, MaxLen),
        as \in Seqs(ArrayActualLeaves, MaxLen)}

\* Literals: every integer kind, floats, and the other literal types.
LiteralExpected ==
    {IntK(k, n) : k \in SignedKinds, n \in -1 .. 2}
    \cup {IntK(k, n) : k \in UnsignedKinds, n \in 0 .. 2}
    \cup {Float64(h) : h \in Halves} \cup {Float32(h) : h \in {2, 3}}
    \cup {Nil, BoolV(TRUE), BoolV(FALSE), Str("A"), Str("true"), Str("1")}
    \cup {Slice(<<>>), Slice(<<Float64(2)>>), Slice(<<IntV(1)>>),
          Map([a |-> Float64(2)]), Map([a |-> IntV(1)])}
LiteralActual ==
    {Float64(h) : h \in Halves}
    \cup {Nil, BoolV(TRUE), BoolV(FALSE), Str("A"), Str("true"), Str("1")}
    \cup {Slice(<<>>), Slice(<<Float64(2)>>), Map([a |-> Float64(2)])}

\* Predicates: the catalog, at the root and one level down.
Predicates ==
    {Null, Bool, String, UUID, Email, URL, Timestamp, Date, Number, Integer,
     Positive, Negative}
    \cup {Regexp(p) : p \in Patterns}
    \cup {StringLength(2, 5), StringLength(3, 10), StringLength(0, 0)}
    \cup {OneOf(<<"apple", "banana", "cherry">>), OneOf(<<>>)}
    \cup {StringWithFormat("isFOO")}
    \cup {TimeWithinDuration(36000, 0), TimeWithinDuration(37800, 1800),
          TimeWithinRange(36000, 39600), TimeWithinRange(39600, 36000),
          TimeBefore(39600), TimeAfter(36000)}
    \cup {NumberWithinDelta(2, 1), NumberWithinDelta(0, 0),
          NumberWithinRange(0, 2), NumberWithinRange(3, 1),
          NumberGreater(2), NumberSmaller(2)}
    \cup {NumberGreater(m) : m \in Halves} \cup {NumberSmaller(m) : m \in Halves}
ScalarActual ==
    {Str(s) : s \in Strings} \cup {Float64(h) : h \in Halves}
    \cup {Nil, BoolV(TRUE), Slice(<<>>), Map(<<>>)}
PredicatePairs ==
    {<<p, v>> : p \in Predicates, v \in ScalarActual}
    \cup {<<Object([a |-> p]), Map([a |-> v])>> :
            p \in Predicates, v \in ScalarActual}
    \cup {<<Array(<<IntV(1), p>>), Slice(<<Float64(2), v>>)>> :
            p \in Predicates, v \in ScalarActual}

\* Nested trees: pairs of an expected tree and an actual value of the same
\* shape, up to three containers deep, over few leaves.
PathExpectedLeaves == {IntV(1), IntV(9), String}
PathActualLeaves == {Float64(2), Str("A")}
PathPairs1 ==
    {<<Object(E), Map(A)>> : E \in Maps({"a", "b"}, PathExpectedLeaves),
                             A \in Maps({"a", "b"}, PathActualLeaves)}
    \cup {<<StrictObject(E), Map(A)>> :
            E \in Maps({"a", "b"}, PathExpectedLeaves),
            A \in Maps({"a", "b"}, PathActualLeaves)}
    \cup {<<Array(es), Slice(as)>> : es \in Seqs(PathExpectedLeaves, MaxLen),
                                     as \in Seqs(PathActualLeaves, MaxLen)}
\* One more container around a pair.
WrapPairs(P) ==
    {<<Object([a |-> p[1]]), Map([a |-> p[2]])>> : p \in P}
    \cup {<<Object([b |-> p[1]]), Map([b |-> p[2], c |-> Nil])>> : p \in P}
    \cup {<<StrictObject([a |-> p[1]]), Map([a |-> p[2]])>> : p \in P}
    \cup {<<Array(<<p[1]>>), Slice(<<p[2]>>)>> : p \in P}
    \cup {<<Array(<<IntV(1), p[1]>>), Slice(<<Float64(2), p[2]>>)>> : p \in P}
WrapPairsOnce(P) ==
    {<<Object([a |-> p[1]]), Map([a |-> p[2]])>> : p \in P}
    \cup {<<Array(<<p[1]>>), Slice(<<p[2]>>)>> : p \in P}
\* The documented example: {"a":{"b":[1,2,3]}} against a, b, Array(1, 2, 9).
ExamplePair ==
    <<Object([a |-> Object([b |-> Array(<<IntV(1), IntV(2), IntV(9)>>)])]),
      Map([a |-> Map([b |-> Slice(<<Float64(2), Float64(4), Float64(6)>>)])])>>
\* A container expected where the actual value is a scalar.
CrossPairs ==
    {<<Object([a |-> p[1]]), Map([a |-> Nil])>> : p \in PathPairs1}
    \cup {<<Array(<<String, p[1]>>), Slice(<<Str("A"), Float64(2)>>)>> :
            p \in PathPairs1}
PathPairs ==
    PathPairs1 \cup WrapPairs(PathPairs1)
    \cup WrapPairsOnce(WrapPairs(PathPairs1)) \cup CrossPairs
    \cup {ExamplePair}

\* Bodies: texts that are JSON, texts that are not, bodies that are no text.
BodyValues ==
    {Nil, BoolV(TRUE), Float64(2), Float64(3), Str("A"),
     Slice(<<>>), Slice(<<Float64(2)>>), Slice(<<Float64(2), Str("A")>>),
     Map(<<>>), Map([a |-> Float64(2)]),
     Map([a |-> Float64(2), b |-> Slice(<<Nil>>)]),
     Map([a |-> Map([b |-> Float64(2)])])}
\* {"a":2,"a":1}, and numbers no float64 holds: 1e999, [1e999], {"a":1e999}.
DuplicateKeyText ==
    <<Tok("{"), StrTok("a"), Tok(":"), NumTok("2"), Tok(","),
      StrTok("a"), Tok(":"), NumTok("1"), Tok("}")>>
HugeTexts ==
    {<<NumTok("1e999")>>,
     <<Tok("["), NumTok("1e999"), Tok("]")>>,
     <<Tok("{"), StrTok("a"), Tok(":"), NumTok("1e999"), Tok("}")>>}
\* Each text cut before its last token, and other malformed texts.
Truncated == {SubSeq(Encode(v), 1, Len(Encode(v)) - 1) : v \in BodyValues}
Malformed ==
    {<<Tok("invalid")>>,
     <<NumTok("01")>>,
     <<NumTok("1"), NumTok("2")>>,
     <<Tok("["), NumTok("1"), Tok(","), Tok("]")>>,
     <<Tok("["), Tok(","), NumTok("1"), Tok("]")>>,
     <<Tok("]")>>,
     <<Tok("{"), StrTok("a"), NumTok("1"), Tok("}")>>,
     <<Tok("{"), StrTok("a"), Tok(":"), Tok("}")>>,
     <<Tok("{"), NumTok("1"), Tok(":"), NumTok("1"), Tok("}")>>,
     <<Tok("{"), StrTok("a"), Tok(":"), NumTok("1"), Tok(","), Tok("}")>>,
     <<Tok("{"), StrTok("a"), Tok(":"), NumTok("1"), Tok("}"), Tok("}")>>}
Texts ==
    {Encode(v) : v \in BodyValues} \cup {DuplicateKeyText} \cup HugeTexts
    \cup Truncated \cup Malformed
\* Go types of a body that is neither string nor []byte.
OtherBodyTypes == {"int", "<nil>", "map[string]interface {}", "*bytes.Buffer"}
Bodies ==
    {Body(ty, text) : ty \in {"string", "[]byte"}, text \in Texts}
    \cup {Body(ty, <<>>) : ty \in OtherBodyTypes}
BodyExpected ==
    {IntV(1), Nil, Number, Null, String, Object(<<>>), Object([a |-> IntV(1)]),
     StrictObject([a |-> IntV(1)]), Array(<<IntV(1)>>),
     UnorderedArray(<<Str("A"), IntV(1)>>)}

\* ----------------------------------------------------------- the machine

\* The locals of UnorderedArray's closure while a call of it is followed
\* loop iteration by loop iteration: where it stands (pc), the decoded array,
\* the outer index i and inner index j (Go index plus one), the checklist
\* `used`, and the calls of match made so far.  `pair` is history: the actual
\* index each processed expected element was found at.
Idle ==
    [pc |-> "idle", arr |-> <<>>, i |-> 1, j |-> 1, used |-> <<>>,
     pair |-> <<>>, trace |-> <<>>]

\* A test holds an expected tree and a body and has not called Assert yet.
Start(exp, b) ==
    /\ expected = exp
    /\ body = b
    /\ results = <<>>
    /\ reported = <<>>
    /\ search = Idle

InitObject == \E e \in ObjectExpected, a \in ObjectActual : Start(e, StringBody(a))
InitArray ==
    \/ \E e \in ArrayExpected, a \in ArrayActual : Start(e, StringBody(a))
    \/ \E p \in NestedUnorderedPairs : Start(p[1], StringBody(p[2]))
InitLiteral ==
    \E e \in LiteralExpected, a \in LiteralActual : Start(e, StringBody(a))
InitPredicate == \E p \in PredicatePairs : Start(p[1], StringBody(p[2]))
InitPath == \E p \in PathPairs : Start(p[1], StringBody(p[2]))
InitBody == \E e \in BodyExpected, b \in Bodies : Start(e, b)
InitUnordered ==
    \E e \in {x \in ArrayExpected : x.f = "UnorderedArray"}, a \in ArrayActual :
        Start(e, StringBody(a))

Init ==
    \/ InitObject
    \/ InitArray
    \/ InitLiteral
    \/ InitPredicate
    \/ InitPath
    \/ InitBody

\* Assert(t, expected, body): isMatch, and t.Error(err) on a mismatch.  The
\* result and the calls made are recorded in results.
DoAssert ==
    /\ Len(results) < MaxRuns
    /\ ~Panicked(expected)
    /\ \E o \in isMatch(body, expected) :
        /\ results' = Append(results, o)
        /\ reported' = IF o.err # NoErr THEN Append(reported, o.err)
                       ELSE reported
    /\ UNCHANGED <<expected, body, search>>

Next == DoAssert

\* The call returns err: Assert records it, and reports it if it is not nil.
Finish(err, trace) ==
    /\ results' = Append(results, Outcome(err, trace))
    /\ reported' = IF err # NoErr THEN Append(reported, err) ELSE reported
    /\ search' = [search EXCEPT !.pc = "done", !.trace = trace]

\* Assert with an UnorderedArray as the expected tree, up to the loops:
\* isMatch decodes the body, match calls the closure at $, the closure checks
\* the type and the length and makes the checklist.
UnorderedBegin ==
    /\ search.pc = "idle"
    /\ results = <<>>
    /\ IsMatcher(expected) /\ expected.f = "UnorderedArray"
    /\ ~Panicked(expected)
    /\ LET u == Unmarshal(body.text)
       IN  IF body.type \notin {"string", "[]byte"} \/ u.err # NoErr
           THEN \E o \in isMatch(body, expected) : Finish(o.err, o.trace)
           ELSE IF u.actual.t # "slice"
           THEN Finish(ErrAt("$", "expected array", <<TypeName(u.actual)>>),
                       <<"$">>)
           ELSE IF Len(u.actual.items) # Len(expected.elements)
           THEN Finish(ErrAt("$", "expected array length",
                             <<ToString(Len(expected.elements)),
                               ToString(Len(u.actual.items))>>), <<"$">>)
           ELSE /\ search' = [pc |-> "outer", arr |-> u.actual.items,
                              i |-> 1, j |-> 1,
                              used |-> [k \in 1..Len(u.actual.items) |-> FALSE],
                              pair |-> <<>>, trace |-> <<"$">>]
                /\ UNCHANGED <<results, reported>>
    /\ UNCHANGED <<expected, body>>

\* The head of `for i, expected := range elements`: the next expected
\* element with found = false, or `return nil` after the last one.
UnorderedOuter ==
    /\ search.pc = "outer"
    /\ IF search.i > Len(expected.elements)
       THEN Finish(NoErr, search.trace)
       ELSE /\ search' = [search EXCEPT !.pc = "inner", !.j = 1]
            /\ UNCHANGED <<results, reported>>
    /\ UNCHANGED <<expected, body>>

\* One iteration of the inner loop that marks nothing: used[j] is never set.
UnorderedInnerNoMark ==
    /\ search.pc = "inner"
    /\ search.j <= Len(search.arr)
    /\ IF search.used[search.j]
       THEN search' = [search EXCEPT !.j = @ + 1]
       ELSE \E o \in match(expected.elements[search.i], "probe",
                            search.arr[search.j]) :
               search' = IF o.err = NoErr
                         THEN [search EXCEPT !.pc = "outer", !.i = @ + 1,
                                             !.pair = Append(@, search.j),
                                             !.trace = @ \o o.trace]
                         ELSE [search EXCEPT !.j = @ + 1,
                                             !.trace = @ \o o.trace]
    /\ UNCHANGED <<expected, body, results, reported>>

\* One iteration of `for j, actual := range arr`: skip a used element, else
\* probe it; a match marks it, sets found and breaks to the next expected
\* element.
UnorderedInner ==
    /\ search.pc = "inner"
    /\ search.j <= Len(search.arr)
    /\ IF search.used[search.j]
       THEN search' = [search EXCEPT !.j = @ + 1]
       ELSE \E o \in match(expected.elements[search.i], "probe",
                            search.arr[search.j]) :
               search' = IF o.err = NoErr
                         THEN [search EXCEPT !.pc = "outer", !.i = @ + 1,
                                             !.used[search.j] = TRUE,
                                             !.pair = Append(@, search.j),
                                             !.trace = @ \o o.trace]
                         ELSE [search EXCEPT !.j = @ + 1,
                                             !.trace = @ \o o.trace]
    /\ UNCHANGED <<expected, body, results, reported>>

\* The inner loop ended with found = false: the not-found error is returned.
UnorderedNotFound ==
    /\ search.pc = "inner"
    /\ search.j > Len(search.arr)
    /\ Finish(ErrAt("$", "expected element not found",
                    <<FmtV(expected.elements[search.i]),
                      ToString(search.i - 1)>>), search.trace)
    /\ UNCHANGED <<expected, body>>

NextUnordered ==
    \/ UnorderedBegin
    \/ UnorderedOuter
    \/ UnorderedInner
    \/ UnorderedNotFound

Spec == Init /\ [][Next]_vars
SpecObject == InitObject /\ [][Next]_vars
SpecArray == InitArray /\ [][Next]_vars
SpecLiteral == InitLiteral /\ [][Next]_vars
SpecPredicate == InitPredicate /\ [][Next]_vars
SpecPath == InitPath /\ [][Next]_vars
SpecBody == InitBody /\ [][Next]_vars
SpecUnordered == InitUnordered /\ [][NextUnordered]_vars

TypeOK ==
    /\ Len(results) <= MaxRuns
    /\ Len(reported) <= Len(results)

\* ---------------------------------------------------------------- claims

\* The value json.Unmarshal decodes the body into.
Actual == Unmarshal(body.text).actual

\* The engine's match of an expected node against a value can succeed.
CanSucceed(e, a) == \E o \in match(e, "$", a) : o.err = NoErr

\* Some call of Assert has returned.
Ran == Len(results) > 0

\* The i-th call of Assert found a match.
Succeeded(i) == results[i].err = NoErr

\* A map without the keys outside K.
Restrict(fields, K) == [k \in DOMAIN fields \cap K |-> fields[k]]

\* C1: Object(E) succeeds on A iff A is an object, every key of E is in A and
\* for every key k of E the engine's match of E[k] against A[k] succeeds; the
\* keys of A that E lacks do not change the result.
C1_ObjectIff ==
    \A i \in DOMAIN results :
        (IsMatcher(expected) /\ expected.f = "Object") =>
            LET E == expected.expected
                A == Actual
            IN  /\ Succeeded(i) <=>
                    /\ A.t = "map"
                    /\ DOMAIN E \subseteq DOMAIN A.fields
                    /\ \A k \in DOMAIN E : CanSucceed(E[k], A.fields[k])
                /\ A.t = "map" =>
                    (Succeeded(i) <=>
                        CanSucceed(expected, Map(Restrict(A.fields, DOMAIN E))))

\* Object has matched a non-empty mapping against an object with extra keys.
C1_Witness ==
    /\ Ran /\ Succeeded(1)
    /\ IsMatcher(expected) /\ expected.f = "Object"
    /\ expected.expected # <<>>
    /\ Actual.t = "map"
    /\ DOMAIN Actual.fields \ DOMAIN expected.expected # {}

\* C2: StrictObject(E) succeeds on A iff A is an object, keys(A) = keys(E) and
\* for every key k the engine's match of E[k] against A[k] succeeds; where
\* Object(E) succeeds on A, StrictObject(E) succeeds iff keys(E) = keys(A).
C2_StrictObjectIff ==
    \A i \in DOMAIN results :
        (IsMatcher(expected) /\ expected.f = "StrictObject") =>
            LET E == expected.expected
                A == Actual
            IN  /\ Succeeded(i) <=>
                    /\ A.t = "map"
                    /\ DOMAIN A.fields = DOMAIN E
                    /\ \A k \in DOMAIN E : CanSucceed(E[k], A.fields[k])
                /\ CanSucceed(Object(E), A) =>
                    (Succeeded(i) <=> DOMAIN E = DOMAIN A.fields)

\* StrictObject has rejected an object that Object accepts.
C2_Witness ==
    /\ Ran /\ ~Succeeded(1)
    /\ IsMatcher(expected) /\ expected.f = "StrictObject"
    /\ expected.expected # <<>>
    /\ CanSucceed(Object(expected.expected), Actual)

\* C3: Array(e0..en-1) succeeds iff the value is a sequence of n elements and
\* every ei matches ai; on a sequence of another length m it fails with the
\* length error carrying n and m, and matches no element.
C3_ArrayIff ==
    \A i \in DOMAIN results :
        (IsMatcher(expected) /\ expected.f = "Array") =>
            LET es == expected.elements
                A == Actual
            IN  /\ Succeeded(i) <=>
                    /\ A.t = "slice"
                    /\ Len(A.items) = Len(es)
                    /\ \A j \in DOMAIN es : CanSucceed(es[j], A.items[j])
                /\ (A.t = "slice" /\ Len(A.items) # Len(es)) =>
                    /\ results[i].err =
                         ErrAt("$", "expected array length",
                               <<ToString(Len(es)), ToString(Len(A.items))>>)
                    /\ results[i].trace = <<"$">>

\* Array has rejected a longer array whose first elements all match.
C3_Witness ==
    /\ Ran /\ ~Succeeded(1)
    /\ IsMatcher(expected) /\ expected.f = "Array"
    /\ Actual.t = "slice"
    /\ Len(Actual.items) > Len(expected.elements)
    /\ Len(expected.elements) > 0
    /\ \A j \in DOMAIN expected.elements :
          CanSucceed(expected.elements[j], Actual.items[j])

\* The one-to-one pairings of n expected elements with n actual elements.
Pairings(n) == {f \in [1..n -> 1..n] : \A i, j \in 1..n : f[i] = f[j] => i = j}

\* C4: UnorderedArray succeeds on a sequence of the same length whenever some
\* one-to-one pairing of expected with actual elements has every expected
\* element match its partner.
C4_UnorderedAnyPairing ==
    \A i \in DOMAIN results :
        (IsMatcher(expected) /\ expected.f = "UnorderedArray") =>
            LET es == expected.elements
                A == Actual
            IN  (/\ A.t = "slice"
                 /\ Len(A.items) = Len(es)
                 /\ \E f \in Pairings(Len(es)) :
                       \A j \in DOMAIN es : CanSucceed(es[j], A.items[f[j]]))
                => Succeeded(i)

\* C5: an integer literal n of any fixed-width integer type matches a decoded
\* value iff the value is a number equal to float64(n).
C5_CoercionExact ==
    \A i \in DOMAIN results :
        expected.t = "int" =>
            LET A == Actual
            IN  Succeeded(i) <=> (IsFloat64(A) /\ ToFloat64(expected.n) = A.h)

\* A step of a descent: into the value of an object key, or an array element.
KeySeg(k) == [s |-> "key", key |-> k]
IndexSeg(i) == [s |-> "index", index |-> i]

RECURSIVE RenderPath(_)
\* `$` followed by .key or [i] for each step, left to right.
RenderPath(segs) ==
    IF segs = <<>> THEN "$"
    ELSE LET last == segs[Len(segs)]
         IN  RenderPath(SubSeq(segs, 1, Len(segs) - 1))
             \o (IF last.s = "key" THEN "." \o last.key
                 ELSE "[" \o ToString(last.index) \o "]")

RECURSIVE Positions(_)
\* The descents through Object, StrictObject and Array that an expected tree has.
Positions(e) ==
    {<<>>} \cup
    IF ~IsMatcher(e) THEN {}
    ELSE IF e.f \in {"Object", "StrictObject"}
    THEN UNION {{<<KeySeg(k)>> \o q : q \in Positions(e.expected[k])} :
                  k \in DOMAIN e.expected}
    ELSE IF e.f = "Array"
    THEN UNION {{<<IndexSeg(j - 1)>> \o q : q \in Positions(e.elements[j])} :
                  j \in DOMAIN e.elements}
    ELSE {}

Missing == [t |-> "missing"]

RECURSIVE ExpectedAt(_, _)
\* The expected node a descent ends at.
ExpectedAt(e, segs) ==
    IF segs = <<>> THEN e
    ELSE IF segs[1].s = "key" THEN ExpectedAt(e.expected[segs[1].key], Tail(segs))
    ELSE ExpectedAt(e.elements[segs[1].index + 1], Tail(segs))

RECURSIVE ActualAt(_, _)
\* The actual value a descent ends at, if the value has that place.
ActualAt(a, segs) ==
    IF segs = <<>> THEN a
    ELSE IF segs[1].s = "key"
    THEN IF a.t = "map" /\ segs[1].key \in DOMAIN a.fields
         THEN ActualAt(a.fields[segs[1].key], Tail(segs))
         ELSE Missing
    ELSE IF a.t = "slice" /\ segs[1].index + 1 \in DOMAIN a.items
         THEN ActualAt(a.items[segs[1].index + 1], Tail(segs))
         ELSE Missing

\* The literal and type mismatches.
MismatchKinds ==
    {"expected, got", "expected null", "expected boolean", "expected string",
     "expected time string", "expected number", "expected object",
     "expected array"}

\* err is what the node e itself says of the value a: a literal that differs,
\* or a value of the wrong type.
OwnMismatch(e, a, err) ==
    IF ~IsMatcher(e)
    THEN /\ err.kind = "expected, got"
         /\ err.args = <<FmtV(e), TypeName(e), FmtV(a), TypeName(a)>>
         /\ e # a
    ELSE /\ err.args = <<TypeName(a)>>
         /\ \/ e.f = "stringValue" /\ err.kind = "expected string" /\ a.t # "string"
            \/ e.f \in {"Object", "StrictObject"} /\ err.kind = "expected object"
               /\ a.t # "map"
            \/ e.f = "Array" /\ err.kind = "expected array" /\ a.t # "slice"

\* C6: a literal or type mismatch reached through Object, StrictObject and
\* Array is reported at `$` followed by .key for each key and [i] for each
\* index descended to reach the offending value.
C6_PathExact ==
    \A i \in DOMAIN results :
        results[i].err.kind \in MismatchKinds =>
            \E segs \in Positions(expected) :
                /\ results[i].err.at = <<RenderPath(segs)>>
                /\ results[i].trace[Len(results[i].trace)] = RenderPath(segs)
                /\ ActualAt(Actual, segs) # Missing
                /\ OwnMismatch(ExpectedAt(expected, segs),
                               ActualAt(Actual, segs), results[i].err)

\* The documented example has failed at $.a.b[2].
C6_Witness ==
    /\ Ran
    /\ expected = ExamplePair[1]
    /\ results[1].err.kind = "expected, got"
    /\ results[1].err.at = <<"$.a.b[2]">>

\* The predicate of the expected tree and the path it is invoked at: the
\* tree itself at $, the value of key a at $.a, or the second element at $[1].
PredicateOf(e) ==
    IF e.f = "Object" THEN e.expected["a"]
    ELSE IF e.f = "Array" THEN e.elements[2]
    ELSE e
PredicatePath(e) ==
    IF e.f = "Object" THEN "$.a" ELSE IF e.f = "Array" THEN "$[1]" ELSE "$"
\* The value the predicate is given.
PredicateValue(e, a) ==
    IF e.f = "Object" THEN a.fields["a"]
    ELSE IF e.f = "Array" THEN a.items[2]
    ELSE a

\* C7: every failure a predicate returns carries the path the predicate was
\* invoked at.
C7_PredicateErrorsCarryPath ==
    \A i \in DOMAIN results :
        (~Succeeded(i) /\ IsPredicate(PredicateOf(expected))) =>
            results[i].err.at = <<PredicatePath(expected)>>

\* The errors isMatch returns before it calls match.
DecodeKinds == {"body must be string or []byte", "invalid json"}

\* A number of the text is one float64 cannot hold.
HoldsHuge(text) ==
    \E j \in DOMAIN text : text[j].k = "number" /\ text[j].lex \in HugeLiterals

\* The body is no text, or text json.Unmarshal rejects: not valid JSON, or
\* valid JSON with a number out of float64's range.
Rejected(b) ==
    \/ b.type \notin {"string", "[]byte"}
    \/ ~ValidJSON(b.text)
    \/ HoldsHuge(b.text)

\* The value a text of the model was written down from.
SourceValue(text) ==
    IF text = DuplicateKeyText THEN Map([a |-> Float64(2)])
    ELSE CHOOSE v \in BodyValues : Encode(v) = text

\* C8 as stated: the decode error is returned exactly for a body that is no
\* text or is not syntactically valid JSON; any other body gets the engine's
\* outcome.
C8_DecodeErrorIffInvalidSyntax ==
    \A i \in DOMAIN results :
        results[i].err.kind \in DecodeKinds <=>
            (body.type \notin {"string", "[]byte"} \/ ~ValidJSON(body.text))

\* C8, amended: a body that is no string or []byte, or that json.Unmarshal
\* rejects (invalid syntax, or a number float64 cannot hold), gets the decode
\* error and no call of match or of a predicate; every other body gets
\* exactly an outcome of match(expected, "$", decoded value), which is never a
\* decode error.
C8_DecodeFirst ==
    \A i \in DOMAIN results :
        IF Rejected(body)
        THEN /\ results[i].err.kind \in DecodeKinds
             /\ results[i].err.at = <<>>
             /\ results[i].trace = <<>>
        ELSE /\ results[i].err.kind \notin DecodeKinds
             /\ results[i] \in match(expected, "$", SourceValue(body.text))

\* A text that is not JSON was given and the decode error came back.
C8_Witness ==
    /\ Ran
    /\ body.type = "[]byte"
    /\ body.text # <<>>
    /\ ~ValidJSON(body.text)
    /\ results[1].err.kind = "invalid json"
    /\ results[1].trace = <<>>

\* C9: Regexp with an invalid pattern does not panic when constructed; the
\* predicate then fails on every value, and on a string the failure cites
\* the pattern.
C9_RegexpLazyFailure ==
    /\ ~Panicked(expected)
    /\ \A p \in InvalidPatterns :
        PredicateOf(expected) = Regexp(p) =>
            \A i \in DOMAIN results :
                /\ ~Succeeded(i)
                /\ PredicateValue(expected, Actual).t = "string" =>
                    /\ results[i].err.kind = "invalid regexp pattern"
                    /\ results[i].err.args = <<Quote(p)>> \o CompileError(p)

\* Regexp("[a-z") was built and has failed on a string, citing the pattern.
C9_Witness ==
    /\ Ran
    /\ expected = Regexp("[a-z")
    /\ Actual.t = "string"
    /\ results[1].err.kind = "invalid regexp pattern"

\* C10: two matches of the same expected tree against the same body give the
\* same verdict, whatever order the keys of the objects are ranged over.
C10_SameVerdict ==
    \A i, j \in DOMAIN results : Succeeded(i) <=> Succeeded(j)

\* Two runs over an object ranged its keys in different orders: they
\* returned different errors.
C10_Witness ==
    /\ Len(results) = 2
    /\ results[1].err # results[2].err
    /\ ~Succeeded(1) /\ ~Succeeded(2)

\* C11: NumberGreater(min) succeeds iff the value is a number strictly greater
\* than min, NumberSmaller(max) iff it is a number strictly smaller than max;
\* a value equal to the bound fails, Positive and Negative both fail on 0, and
\* a value that is no number fails.
C11_StrictBounds ==
    \A i \in DOMAIN results :
        LET p == PredicateOf(expected)
            v == PredicateValue(expected, Actual)
        IN  /\ p.f = "NumberGreater" =>
                /\ Succeeded(i) <=> (v.t = "float" /\ v.h > p.min)
                /\ v = Float64(p.min) => ~Succeeded(i)
            /\ p.f = "NumberSmaller" =>
                /\ Succeeded(i) <=> (v.t = "float" /\ v.h < p.max)
                /\ v = Float64(p.max) => ~Succeeded(i)
            /\ (p \in {Positive, Negative} /\ v = Float64(0)) => ~Succeeded(i)
            /\ (p.f \in {"NumberGreater", "NumberSmaller"} /\ v.t # "float") =>
                ~Succeeded(i)

\* Positive has been given 0 and has failed.
C11_Witness ==
    /\ Ran /\ ~Succeeded(1)
    /\ expected = Positive
    /\ Actual = Float64(0)
    /\ results[1].err.kind = "expected number greater than"

\* The UnorderedArray of the expected tree, the path it is invoked at and the
\* value it is given: the tree itself at $, or the value of key a at $.a.
HasUnordered ==
    /\ IsMatcher(expected)
    /\ \/ expected.f = "UnorderedArray"
       \/ /\ expected.f = "Object"
          /\ DOMAIN expected.expected = {"a"}
          /\ IsMatcher(expected.expected["a"])
          /\ expected.expected["a"].f = "UnorderedArray"
UnorderedElements ==
    IF expected.f = "Object" THEN expected.expected["a"].elements
    ELSE expected.elements
UnorderedPath == IF expected.f = "Object" THEN "$.a" ELSE "$"
UnorderedValue(a) == IF expected.f = "Object" THEN a.fields["a"] ELSE a

\* The smallest member of a non-empty set of indices.
Lowest(S) == CHOOSE j \in S : \A k \in S : j <= k

RECURSIVE GreedyReference(_, _, _, _)
\* The greedy assignment: expected elements in order from the i-th on, each
\* paired with the lowest unconsumed actual element matching it.  0 when
\* every expected element is paired, else the first i left without a partner.
GreedyReference(es, items, i, consumed) ==
    IF i > Len(es) THEN 0
    ELSE LET free == {j \in DOMAIN items \ consumed : CanSucceed(es[i], items[j])}
         IN  IF free = {} THEN i
             ELSE GreedyReference(es, items, i + 1, consumed \cup {Lowest(free)})

\* C12: on a sequence of the same length UnorderedArray returns what the
\* greedy assignment without backtracking gives: success when every expected
\* element finds a partner, else the failure naming the first expected
\* element left without one and its index, at the array's own path.
C12_GreedyReference ==
    \A i \in DOMAIN results :
        HasUnordered =>
            LET es == UnorderedElements
                v == UnorderedValue(Actual)
            IN  (v.t = "slice" /\ Len(v.items) = Len(es)) =>
                    LET g == GreedyReference(es, v.items, 1, {})
                    IN  results[i].err =
                          IF g = 0 THEN NoErr
                          ELSE ErrAt(UnorderedPath, "expected element not found",
                                     <<FmtV(es[g]), ToString(g - 1)>>)

\* UnorderedArray under key a has failed at its second element although a
\* one-to-one pairing matches every element.
C12_Witness ==
    /\ Ran /\ HasUnordered
    /\ UnorderedPath = "$.a"
    /\ UnorderedValue(Actual).t = "slice"
    /\ Len(UnorderedValue(Actual).items) = Len(UnorderedElements)
    /\ results[1].err.kind = "expected element not found"
    /\ results[1].err.at = <<"$.a">>
    /\ results[1].err.args[2] = "1"
    /\ \E f \in Pairings(Len(UnorderedElements)) :
          \A j \in DOMAIN UnorderedElements :
              CanSucceed(UnorderedElements[j], UnorderedValue(Actual).items[f[j]])

\* C13: when the actual object has a key the expected mapping lacks,
\* StrictObject fails with the unexpected-key failure naming one such key,
\* whatever else is wrong with the object, and matches no child value.
C13_UnexpectedKeyFirst ==
    \A i \in DOMAIN results :
        (IsMatcher(expected) /\ expected.f = "StrictObject") =>
            LET E == expected.expected
                A == Actual
            IN  (A.t = "map" /\ DOMAIN A.fields \ DOMAIN E # {}) =>
                    /\ results[i].err.kind = "unexpected key"
                    /\ results[i].err.at = <<"$">>
                    /\ \E k \in DOMAIN A.fields \ DOMAIN E :
                          results[i].err.args = <<Quote(k)>>
                    /\ results[i].trace = <<"$">>

\* StrictObject has reported an unexpected key for an object that also lacks
\* an expected key and holds a shared key whose value does not match.
C13_Witness ==
    /\ Ran
    /\ IsMatcher(expected) /\ expected.f = "StrictObject"
    /\ Actual.t = "map"
    /\ DOMAIN Actual.fields \ DOMAIN expected.expected # {}
    /\ DOMAIN expected.expected \ DOMAIN Actual.fields # {}
    /\ \E k \in DOMAIN expected.expected \cap DOMAIN Actual.fields :
          ~CanSucceed(expected.expected[k], Actual.fields[k])
    /\ results[1].err.kind = "unexpected key"

\* The path of the element at Go index j - 1 of the array at the root.
ElementPath(j) == "$[" \o ToString(j - 1) \o "]"

RECURSIVE ElementTraces(_, _, _, _)
\* The calls made by matching the elements j..k in order, one after another.
ElementTraces(es, items, j, k) ==
    IF j > k THEN {<<>>}
    ELSE {o.trace \o r : o \in match(es[j], ElementPath(j), items[j]),
                         r \in ElementTraces(es, items, j + 1, k)}

\* C14: a failing Array over a sequence of the same length returns one error,
\* the one the element of the smallest failing index produces; the elements
\* before it were matched in order, depth first, and none after it.
C14_FirstFailure ==
    \A i \in DOMAIN results :
        (IsMatcher(expected) /\ expected.f = "Array") =>
            LET es == expected.elements
                A == Actual
            IN  (A.t = "slice" /\ Len(A.items) = Len(es) /\ ~Succeeded(i)) =>
                    LET bad == {j \in DOMAIN es : ~CanSucceed(es[j], A.items[j])}
                    IN  /\ bad # {}
                        /\ \E pre \in ElementTraces(es, A.items, 1, Lowest(bad) - 1),
                              o \in match(es[Lowest(bad)], ElementPath(Lowest(bad)),
                                          A.items[Lowest(bad)]) :
                              /\ o.err # NoErr
                              /\ results[i] = Outcome(o.err, <<"$">> \o pre \o o.trace)

\* Array has failed on two elements that both mismatch: the error is the
\* first element's and the second was never matched.
C14_Witness ==
    /\ Ran /\ ~Succeeded(1)
    /\ IsMatcher(expected) /\ expected.f = "Array"
    /\ Actual.t = "slice"
    /\ Len(Actual.items) = Len(expected.elements)
    /\ Len(expected.elements) >= 2
    /\ ~CanSucceed(expected.elements[1], Actual.items[1])
    /\ ~CanSucceed(expected.elements[2], Actual.items[2])
    /\ results[1].err.at = <<"$[0]">>
    /\ results[1].trace = <<"$", "$[0]">>

\* Paths other than the root's: the placeholder of UnorderedArray, a nested
\* path, the empty string.
OtherPaths == {"probe", "$.a.b[2]", ""}

\* The verdicts match(e, path, a) can give.
Verdicts(e, path, a) == {o.err = NoErr : o \in match(e, path, a)}

\* C15: the verdict of match does not depend on the path: for the expected
\* tree and the decoded body of a run, match under any other path gives the
\* verdict of the run, and for an UnorderedArray the probe of any expected
\* element against any actual element gives the verdict of the match of the
\* two under the element's real path.
C15_PathIndependence ==
    \A i \in DOMAIN results :
        ~Rejected(body) =>
            LET A == Actual
            IN  /\ \A p \in OtherPaths :
                      Verdicts(expected, p, A) = {Succeeded(i)}
                /\ (HasUnordered /\ UnorderedValue(A).t = "slice") =>
                      \A j \in DOMAIN UnorderedElements,
                         k \in DOMAIN UnorderedValue(A).items :
                          Verdicts(UnorderedElements[j], "probe",
                                   UnorderedValue(A).items[k])
                          = Verdicts(UnorderedElements[j],
                                     UnorderedPath \o "[" \o ToString(k - 1) \o "]",
                                     UnorderedValue(A).items[k])

\* UnorderedArray has succeeded after a probe that failed and a probe that
\* matched.
C15_Witness ==
    /\ Ran /\ Succeeded(1)
    /\ HasUnordered
    /\ Len(UnorderedElements) = 2
    /\ ~CanSucceed(UnorderedElements[1], UnorderedValue(Actual).items[1])
    /\ Len(SelectSeq(results[1].trace, LAMBDA t : t = "probe")) = 3

\* The actual indices the checklist marks as used.
Consumed == {j \in DOMAIN search.used : search.used[j]}

\* C16: at every step of UnorderedArray's search the expected elements
\* processed so far are paired one-to-one with the consumed actual elements,
\* as many of the one as of the other, each expected element matching its
\* partner; when the search returns success every actual element is
\* consumed and the pairing is a bijection.  The result the steps arrive at
\* is a result of the closure run as a whole.
C16_Consumption ==
    LET es == expected.elements
        n == Len(search.pair)
    IN  /\ search.pc \in {"outer", "inner"} => n = search.i - 1
        /\ search.pc # "idle" =>
            /\ Cardinality(Consumed) = n
            /\ Consumed = {search.pair[k] : k \in 1..n}
            /\ \A k \in 1..n : CanSucceed(es[k], search.arr[search.pair[k]])
        /\ search.pc = "done" =>
            /\ results[1] \in isMatch(body, expected)
            /\ (Succeeded(1) /\ Actual.t = "slice") =>
                /\ search.arr = Actual.items
                /\ Consumed = DOMAIN search.arr
                /\ search.pair \in Pairings(Len(es))

\* The search has returned success with a pairing that is not the identity.
C16_Witness ==
    /\ search.pc = "done"
    /\ Succeeded(1)
    /\ search.pair = <<2, 1>>
    /\ Consumed = {1, 2}

====
